---- MODULE Spec2Model ----
(***************************************************************************)
(* nir_lower_locals_to_regs: lowering of loads and stores on local         *)
(* dereference chains to moves on virtual registers.                       *)
(*                                                                         *)
(* A dereference chain is a sequence of nodes, leaf first, the variable    *)
(* node last, as the code walks it through nir_deref_instr_parent.         *)
(* A value (an index operand, a dynamic index) is an expression tree:      *)
(*   <<"imm", n>>  <<"ssa", name>>  <<"imul", a, b>>  <<"iadd", a, b>>.    *)
(* All integers of the model stay far below 2^31, where the unsigned      *)
(* 32-bit arithmetic of the code and integer arithmetic coincide.          *)
(***************************************************************************)
EXTENDS Integers, Sequences, FiniteSets, TLC

VARIABLES
    shader,        \* the functions of the shader, rewritten in place
    f,             \* nir_foreach_function: index of the current function
    blk,           \* nir_foreach_block: index of the current block
    pos,           \* nir_foreach_instr_safe: index of the current instruction
    regs_table,    \* state.regs_table of the function being lowered
    state_progress,\* state.progress of the function being lowered
    progress,      \* progress of nir_lower_locals_to_regs
    result,        \* value returned by nir_lower_locals_to_regs
    pc,            \* "loop", "impl", "done" or "fatal"
    runs,          \* number of calls of nir_lower_locals_to_regs so far
    input,         \* history: the shader before the first call
    pre,           \* history: the shader when the current call began
    rets,          \* history: value returned by each ..._impl call of this call
    rewritten,     \* history: ids of the instructions rewritten by this call
    walk,          \* history: src after each link of the last index walk
    asserts_ok     \* history: no assert of get_deref_reg_src has failed

vars == <<shader, f, blk, pos, regs_table, state_progress, progress, result,
          pc, runs, input, pre, rets, rewritten, walk, asserts_ok>>

----------------------------------------------------------------------------
(* Bounds of the model *)

\* constant array indices range over 0..MaxIdx
MaxIdx == 2
\* run-time values of a dynamic index range over 0..MaxDyn
MaxDyn == 2
\* number of instructions of the lowered function body (over two blocks)
MaxInstrs == 2
\* number of functions of a multi-function shader
NumFuncs == 3
\* number of times the pass is applied to the same shader
MaxRuns == 2

NULL == <<>>

----------------------------------------------------------------------------
(* Types, as the pass queries them *)

Vec(n, bits) == <<"vec", n, bits>>
Arr(len, elem) == <<"array", len, elem>>
Struct(fields) == <<"struct", fields>>

glsl_get_length(type) == type[2]
glsl_get_vector_elements(type) == type[2]
glsl_get_bit_size(type) == type[3]
glsl_type_is_vector_or_scalar(type) == type[1] = "vec"

(* Variables: name, storage class, the pointer value hashed by hash_deref,
   and the declared type.  "one" is the single-element array of the comment
   in get_deref_reg_src, and "w" an array of such arrays; "m" is an array of
   arrays [3][4]; "t" and "u" hold struct fields below (and above) arrays;
   "g" is not local. *)
Variables ==
    { [name |-> "s",   mode |-> "local",  ptr |-> 1, type |-> Vec(1, 32)],
      [name |-> "one", mode |-> "local",  ptr |-> 2, type |-> Arr(1, Vec(4, 32))],
      [name |-> "a",   mode |-> "local",  ptr |-> 6, type |-> Arr(4, Vec(4, 32))],
      [name |-> "m",   mode |-> "local",  ptr |-> 3, type |-> Arr(3, Arr(4, Vec(1, 32)))],
      [name |-> "t",   mode |-> "local",  ptr |-> 4,
       type |-> Arr(2, Struct(<<Vec(1, 32), Vec(2, 16)>>))],
      [name |-> "u",   mode |-> "local",  ptr |-> 7,
       type |-> Arr(2, Struct(<<Vec(3, 32), Arr(3, Vec(2, 64))>>))],
      [name |-> "w",   mode |-> "local",  ptr |-> 8,
       type |-> Arr(1, Arr(1, Vec(2, 32)))],
      [name |-> "g",   mode |-> "global", ptr |-> 5, type |-> Arr(4, Vec(4, 32))] }

Var(name) == CHOOSE v \in Variables : v.name = name

----------------------------------------------------------------------------
(* Dereference chains *)

VarNode(v) ==
    [deref_type |-> "var", var |-> v.ptr, mode |-> v.mode, type |-> v.type,
     strct_index |-> 0, arr_index |-> NULL]

ArrayNode(parent, index) ==
    [deref_type |-> "array", var |-> parent.var, mode |-> parent.mode,
     type |-> parent.type[3], strct_index |-> 0, arr_index |-> index]

StructNode(parent, k) ==
    [deref_type |-> "struct", var |-> parent.var, mode |-> parent.mode,
     type |-> parent.type[2][k + 1], strct_index |-> k, arr_index |-> NULL]

nir_deref_instr_parent(d) == Tail(d)

(* Every full chain (one ending in a vector or scalar) that extends chain d,
   with array indices drawn from ops. *)
RECURSIVE Extend(_, _)
Extend(d, ops) ==
    LET type == Head(d).type IN
    CASE glsl_type_is_vector_or_scalar(type) -> {d}
      [] type[1] = "array" ->
            UNION { Extend(<<ArrayNode(Head(d), op)>> \o d, ops) : op \in ops }
      [] type[1] = "struct" ->
            UNION { Extend(<<StructNode(Head(d), k - 1)>> \o d, ops) :
                    k \in 1..Len(type[2]) }

Chains(v, ops) == Extend(<<VarNode(v)>>, ops)

SsaNames == {"i", "j"}
Imm(n) == <<"imm", n>>
Ssa(x) == <<"ssa", x>>
IndexOps == { Imm(k) : k \in 0..MaxIdx } \cup { Ssa(x) : x \in SsaNames }

\* nir_src_as_const_value: non-NULL exactly for a constant operand
is_const(src) == src[1] = "imm"
const_value(src) == src[2]

----------------------------------------------------------------------------
(* Hash and equality of dereference chains *)

fnv32_1a_offset_bias == 1
fnv32_1a_prime == 3
\* the hash values range over 0..HashSpace-1, small enough for chains of
\* different variables to collide
HashSpace == 4

fnv32_1a_accumulate(hash, data) == (hash * fnv32_1a_prime + data) % HashSpace

RECURSIVE hash_walk(_, _)
hash_walk(deref, hash) ==
    CASE Head(deref).deref_type = "var" ->
            fnv32_1a_accumulate(hash, Head(deref).var)
      [] Head(deref).deref_type = "array" ->
            hash_walk(nir_deref_instr_parent(deref), hash)
      [] Head(deref).deref_type = "struct" ->
            hash_walk(nir_deref_instr_parent(deref),
                      fnv32_1a_accumulate(hash, Head(deref).strct_index))

\* as hash_deref, were the array index folded into the hash
RECURSIVE hash_walk_with_index(_, _)
hash_walk_with_index(deref, hash) ==
    CASE Head(deref).deref_type = "var" ->
            fnv32_1a_accumulate(hash, Head(deref).var)
      [] Head(deref).deref_type = "array" ->
            hash_walk_with_index(nir_deref_instr_parent(deref),
               fnv32_1a_accumulate(hash,
                  IF is_const(Head(deref).arr_index)
                  THEN const_value(Head(deref).arr_index) ELSE 2))
      [] Head(deref).deref_type = "struct" ->
            hash_walk_with_index(nir_deref_instr_parent(deref),
                      fnv32_1a_accumulate(hash, Head(deref).strct_index))

hash_deref_with_index(deref) == hash_walk_with_index(deref, fnv32_1a_offset_bias)

hash_deref(deref) == hash_walk(deref, fnv32_1a_offset_bias)

\* as derefs_equal, were the variables not compared
RECURSIVE derefs_equal_any_var(_, _)
derefs_equal_any_var(a, b) ==
    IF Head(a).deref_type # Head(b).deref_type THEN FALSE
    ELSE CASE Head(a).deref_type = "var" -> TRUE
           [] Head(a).deref_type = "array" ->
                 derefs_equal_any_var(nir_deref_instr_parent(a),
                                      nir_deref_instr_parent(b))
           [] Head(a).deref_type = "struct" ->
                 IF Head(a).strct_index # Head(b).strct_index THEN FALSE
                 ELSE derefs_equal_any_var(nir_deref_instr_parent(a),
                                           nir_deref_instr_parent(b))

(* Every chain ends in a variable node, so the walk returns before either
   chain is exhausted. *)
RECURSIVE derefs_equal(_, _)
derefs_equal(a, b) ==
    IF Head(a).deref_type # Head(b).deref_type THEN FALSE
    ELSE CASE Head(a).deref_type = "var" -> Head(a).var = Head(b).var
           [] Head(a).deref_type = "array" ->
                 derefs_equal(nir_deref_instr_parent(a), nir_deref_instr_parent(b))
           [] Head(a).deref_type = "struct" ->
                 IF Head(a).strct_index # Head(b).strct_index THEN FALSE
                 ELSE derefs_equal(nir_deref_instr_parent(a),
                                   nir_deref_instr_parent(b))

(* The table is a sequence of entries [hash, key, data]; data is the index
   of the register in the function's register list.  The search returns
   the index of the matching entry, 0 when there is none. *)
hash_table_search_pre_hashed(table, hash, key) ==
    LET hits == { e \in 1..Len(table) :
                    table[e].hash = hash /\ derefs_equal(key, table[e].key) }
    IN  IF hits = {} THEN 0 ELSE CHOOSE e \in hits : \A o \in hits : e <= o

hash_table_insert_pre_hashed(table, hash, key, data) ==
    Append(table, [hash |-> hash, key |-> key, data |-> data])

----------------------------------------------------------------------------
(* get_reg_for_deref *)

\* as deref_array_size, were the walk to stop at the innermost array
RECURSIVE deref_array_size_innermost(_)
deref_array_size_innermost(d) ==
    IF d = <<>> THEN 1
    ELSE IF Head(d).deref_type = "array"
         THEN glsl_get_length(Head(nir_deref_instr_parent(d)).type)
         ELSE deref_array_size_innermost(nir_deref_instr_parent(d))

RECURSIVE deref_array_size(_)
deref_array_size(d) ==
    IF d = <<>> THEN 1
    ELSE IF Head(d).deref_type = "array"
         THEN glsl_get_length(Head(nir_deref_instr_parent(d)).type)
                 * deref_array_size(nir_deref_instr_parent(d))
         ELSE deref_array_size(nir_deref_instr_parent(d))

num_array_elems_of(array_size) == IF array_size > 1 THEN array_size ELSE 0

new_register(deref) ==
    [num_components |-> glsl_get_vector_elements(Head(deref).type),
     num_array_elems |-> num_array_elems_of(deref_array_size(deref)),
     bit_size |-> glsl_get_bit_size(Head(deref).type)]

(* Returns the register (its index in registers) with the table and the
   register list as the call leaves them. *)
get_reg_for_deref(deref, table, registers) ==
    LET hash == hash_deref(deref)
        entry == hash_table_search_pre_hashed(table, hash, deref)
    IN  IF entry # 0
        THEN [reg |-> table[entry].data, table |-> table, registers |-> registers]
        ELSE [reg |-> Len(registers) + 1,
              table |-> hash_table_insert_pre_hashed(table, hash, deref,
                                                     Len(registers) + 1),
              registers |-> Append(registers, new_register(deref))]

----------------------------------------------------------------------------
(* get_deref_reg_src *)

Emit(op, def) == [op |-> op, def |-> def]

\* as array_link, were base_offset not reset when the indirect is seeded
array_link_no_reset(w, d) ==
    LET index == Head(d).arr_index
        scaled == <<"imul", index, Imm(w.inner_array_size)>>
    IN  IF is_const(index) /\ w.src.indirect = NULL
        THEN [w EXCEPT !.src.base_offset =
                          @ + const_value(index) * w.inner_array_size]
        ELSE LET seeded ==
                   IF w.src.indirect # NULL
                   THEN [w EXCEPT !.ok = @ /\ (w.src.base_offset = 0)]
                   ELSE [w EXCEPT !.src.indirect = Imm(w.src.base_offset),
                                  !.emitted = Append(@, Emit("imm",
                                                 Imm(w.src.base_offset)))]
                 sum == <<"iadd", seeded.src.indirect, scaled>>
             IN  [seeded EXCEPT !.src.indirect = sum,
                                !.emitted = @ \o <<Emit("imm", Imm(w.inner_array_size)),
                                                   Emit("imul", scaled),
                                                   Emit("iadd", sum)>>]

(* One array link of the walk: the constant is added to base_offset, or the
   index is accumulated into the indirect.  w is the walk so far:
   src, inner_array_size, the instructions the builder emitted, whether the
   assert held, and src after each link. *)
array_link(w, d) ==
    LET index == Head(d).arr_index
        scaled == <<"imul", index, Imm(w.inner_array_size)>>
    IN  IF is_const(index) /\ w.src.indirect = NULL
        THEN [w EXCEPT !.src.base_offset =
                          @ + const_value(index) * w.inner_array_size]
        ELSE LET seeded ==
                   IF w.src.indirect # NULL
                   THEN [w EXCEPT !.ok = @ /\ (w.src.base_offset = 0)]
                   ELSE [w EXCEPT !.src.indirect = Imm(w.src.base_offset),
                                  !.src.base_offset = 0,
                                  !.emitted = Append(@, Emit("imm",
                                                 Imm(w.src.base_offset)))]
                 sum == <<"iadd", seeded.src.indirect, scaled>>
             IN  [seeded EXCEPT !.src.indirect = sum,
                                !.emitted = @ \o <<Emit("imm", Imm(w.inner_array_size)),
                                                   Emit("imul", scaled),
                                                   Emit("iadd", sum)>>]

\* as next_inner_array_size, were the stride not scaled
next_inner_array_size_unscaled(inner_array_size, d) == inner_array_size

next_inner_array_size(inner_array_size, d) ==
    inner_array_size * glsl_get_length(Head(nir_deref_instr_parent(d)).type)

RECURSIVE index_walk(_, _)
index_walk(w, d) ==
    IF d = <<>> THEN w
    ELSE IF Head(d).deref_type # "array"
         THEN index_walk(w, nir_deref_instr_parent(d))
         ELSE LET linked == array_link(w, d)
              IN  index_walk(
                     [linked EXCEPT
                        !.inner_array_size = next_inner_array_size(@, d),
                        !.trace = Append(@, linked.src)],
                     nir_deref_instr_parent(d))

\* as is_non_array_register, were the early return missing
is_non_array_register_never(reg) == FALSE

is_non_array_register(reg) == reg.num_array_elems = 0

get_deref_reg_src(deref, table, registers) ==
    LET got == get_reg_for_deref(deref, table, registers)
        w0 == [src |-> [reg |-> got.reg, base_offset |-> 0, indirect |-> NULL],
               inner_array_size |-> 1, emitted |-> <<>>, ok |-> TRUE,
               trace |-> <<>>]
        w == IF is_non_array_register(got.registers[got.reg])
             THEN w0 ELSE index_walk(w0, deref)
    IN  [src |-> w.src, emitted |-> w.emitted, ok |-> w.ok, trace |-> w.trace,
         table |-> got.table, registers |-> got.registers]

----------------------------------------------------------------------------
(* Instructions *)

Instr(type, op, deref, deref2) ==
    [type |-> type, op |-> op, id |-> <<>>, deref |-> deref, deref2 |-> deref2,
     operand |-> "none", reg |-> 0, base_offset |-> 0, indirect |-> NULL,
     def |-> NULL, write_mask |-> 0]

FullMask(deref) == 2 ^ glsl_get_vector_elements(Head(deref).type) - 1

LoadDeref(deref) == Instr("intrinsic", "load_deref", deref, NULL)
StoreDeref(deref) ==
    [Instr("intrinsic", "store_deref", deref, NULL) EXCEPT
        !.write_mask = FullMask(deref)]
CopyDeref(dst, src) == Instr("intrinsic", "copy_deref", dst, src)
Barrier == Instr("intrinsic", "barrier", NULL, NULL)
Fadd == Instr("alu", "fadd", NULL, NULL)

\* an instruction the builder inserts at the cursor for instruction instr
Built(instr, e) ==
    [Instr(IF e.op = "imm" THEN "load_const" ELSE "alu", e.op, NULL, NULL)
        EXCEPT !.id = instr.id, !.def = e.def]

\* the imov that takes the place of instr, with the register as operand
Mov(instr, operand, src) ==
    [Instr("alu", "imov", NULL, NULL) EXCEPT
        !.id = instr.id, !.operand = operand, !.reg = src.reg,
        !.base_offset = src.base_offset, !.indirect = src.indirect]

----------------------------------------------------------------------------
(* lower_locals_to_regs_block, one instruction *)

\* as is_local, were the storage class not looked at
is_local_any_mode(deref) == TRUE

is_local(deref) == Head(deref).mode = "local"

rewrites(instr) ==
    /\ instr.type = "intrinsic"
    /\ instr.op \in {"load_deref", "store_deref"}
    /\ is_local(instr.deref)

\* as lower_load_deref, were the load not removed
lower_load_deref_keep(instr, got) ==
    [ e \in 1..Len(got.emitted) |-> Built(instr, got.emitted[e]) ]
    \o << [Mov(instr, "src", got.src) EXCEPT
              !.write_mask = FullMask(instr.deref)],
          instr >>

\* as lower_store_deref, were base_offset not copied to the destination
lower_store_deref_no_offset(instr, got) ==
    [ e \in 1..Len(got.emitted) |-> Built(instr, got.emitted[e]) ]
    \o << [Mov(instr, "dest", got.src) EXCEPT
              !.write_mask = instr.write_mask, !.base_offset = 0] >>

(* The instructions that take the place of a load: what the builder emitted
   for the index, then the move; the load itself is removed. *)
lower_load_deref(instr, got) ==
    [ e \in 1..Len(got.emitted) |-> Built(instr, got.emitted[e]) ]
    \o << [Mov(instr, "src", got.src) EXCEPT
              !.write_mask = FullMask(instr.deref)] >>

lower_store_deref(instr, got) ==
    [ e \in 1..Len(got.emitted) |-> Built(instr, got.emitted[e]) ]
    \o << [Mov(instr, "dest", got.src) EXCEPT !.write_mask = instr.write_mask] >>

lower_instr(instr, got) ==
    IF instr.op = "load_deref" THEN lower_load_deref(instr, got)
    ELSE lower_store_deref(instr, got)

Splice(block, at, repl) ==
    SubSeq(block, 1, at - 1) \o repl \o SubSeq(block, at + 1, Len(block))

----------------------------------------------------------------------------
(* nir_lower_locals_to_regs_impl as a whole, the blocks taken in a given
   order; st is the blocks, the table and the register list.  A copy is
   passed over. *)

RECURSIVE lower_block_from(_, _, _)
lower_block_from(st, b, at) ==
    IF at > Len(st.blocks[b]) THEN st
    ELSE LET instr == st.blocks[b][at] IN
         IF rewrites(instr)
         THEN LET got == get_deref_reg_src(instr.deref, st.table, st.registers)
                  repl == lower_instr(instr, got)
              IN  lower_block_from(
                     [blocks |-> [st.blocks EXCEPT ![b] = Splice(@, at, repl)],
                      table |-> got.table, registers |-> got.registers],
                     b, at + Len(repl))
         ELSE lower_block_from(st, b, at + 1)

RECURSIVE lower_blocks_in_order(_, _)
lower_blocks_in_order(st, order) ==
    IF order = <<>> THEN st
    ELSE lower_blocks_in_order(lower_block_from(st, Head(order), 1), Tail(order))

lower_impl_in_order(function, order) ==
    LET st == lower_blocks_in_order(
                 [blocks |-> function.blocks, table |-> <<>>,
                  registers |-> function.registers], order)
    IN  [function EXCEPT !.blocks = st.blocks, !.registers = st.registers]

----------------------------------------------------------------------------
(* nir_lower_locals_to_regs *)

\* as should_lower, were the call short-circuited by earlier progress
should_lower_until_progress(function, outer_progress) ==
    function.impl /\ ~outer_progress

should_lower(function, outer_progress) == function.impl

Function(impl, blocks) == [impl |-> impl, blocks |-> blocks, registers |-> <<>>]

CurFunction == shader[f]
CurBlock == CurFunction.blocks[blk]
CurInstr == CurBlock[pos]
InBlock == pc = "impl" /\ blk <= Len(CurFunction.blocks) /\ pos <= Len(CurBlock)

history == <<input, pre>>

SkipFunction ==
    /\ pc = "loop" /\ f <= Len(shader)
    /\ ~should_lower(CurFunction, progress)
    /\ f' = f + 1
    /\ rets' = [rets EXCEPT ![f] = "skipped"]
    /\ UNCHANGED <<shader, blk, pos, regs_table, state_progress, progress, result,
                   pc, runs, history, rewritten, walk, asserts_ok>>

EnterImpl ==
    /\ pc = "loop" /\ f <= Len(shader)
    /\ should_lower(CurFunction, progress)
    /\ pc' = "impl"
    /\ state_progress' = FALSE
    /\ regs_table' = <<>>
    /\ blk' = 1 /\ pos' = 1
    /\ UNCHANGED <<shader, f, progress, result, runs, history, rets, rewritten,
                   walk, asserts_ok>>

(* A load or a store on a local chain becomes a move *)
VisitRewrite ==
    /\ InBlock /\ rewrites(CurInstr)
    /\ LET got == get_deref_reg_src(CurInstr.deref, regs_table,
                                    CurFunction.registers)
           repl == lower_instr(CurInstr, got)
       IN  /\ shader' = [shader EXCEPT
                            ![f].blocks[blk] = Splice(@, pos, repl),
                            ![f].registers = got.registers]
           /\ regs_table' = got.table
           /\ pos' = pos + Len(repl)
           /\ walk' = got.trace
           /\ asserts_ok' = (asserts_ok /\ got.ok)
    /\ state_progress' = TRUE
    /\ rewritten' = rewritten \cup {CurInstr.id}
    /\ UNCHANGED <<f, blk, progress, result, pc, runs, history, rets>>

(* Not an intrinsic, another intrinsic, or a chain that is not local *)
VisitContinue ==
    /\ InBlock /\ ~rewrites(CurInstr)
    /\ ~(CurInstr.type = "intrinsic" /\ CurInstr.op = "copy_deref")
    /\ pos' = pos + 1
    /\ UNCHANGED <<shader, f, blk, regs_table, state_progress, progress, result,
                   pc, runs, history, rets, rewritten, walk, asserts_ok>>

(* unreachable(): the assert aborts, or (asserts compiled out) the behaviour
   is undefined and the build falls through to the break *)
VisitCopy ==
    /\ InBlock
    /\ CurInstr.type = "intrinsic" /\ CurInstr.op = "copy_deref"
    /\ \/ pc' = "fatal" /\ pos' = pos
       \/ pc' = pc /\ pos' = pos + 1
    /\ UNCHANGED <<shader, f, blk, regs_table, state_progress, progress, result,
                   runs, history, rets, rewritten, walk, asserts_ok>>

EndBlock ==
    /\ pc = "impl" /\ blk <= Len(CurFunction.blocks) /\ pos > Len(CurBlock)
    /\ blk' = blk + 1 /\ pos' = 1
    /\ UNCHANGED <<shader, f, regs_table, state_progress, progress, result, pc,
                   runs, history, rets, rewritten, walk, asserts_ok>>

LeaveImpl ==
    /\ pc = "impl" /\ blk > Len(CurFunction.blocks)
    /\ regs_table' = <<>>
    /\ rets' = [rets EXCEPT ![f] = IF state_progress THEN "true" ELSE "false"]
    /\ progress' = (state_progress \/ progress)
    /\ f' = f + 1
    /\ pc' = "loop"
    /\ UNCHANGED <<shader, blk, pos, state_progress, result, runs, history,
                   rewritten, walk, asserts_ok>>

Return ==
    /\ pc = "loop" /\ f > Len(shader)
    /\ pc' = "done"
    /\ result' = progress
    /\ UNCHANGED <<shader, f, blk, pos, regs_table, state_progress, progress,
                   runs, history, rets, rewritten, walk, asserts_ok>>

(* The pass is applied again to the shader it has left *)
Reapply ==
    /\ pc = "done" /\ runs < MaxRuns
    /\ runs' = runs + 1
    /\ pc' = "loop"
    /\ f' = 1
    /\ progress' = FALSE
    /\ pre' = shader
    /\ rets' = [g \in 1..Len(shader) |-> "pending"]
    /\ rewritten' = {}
    /\ UNCHANGED <<shader, blk, pos, regs_table, state_progress, result, input,
                   walk, asserts_ok>>

Next ==
    \/ SkipFunction
    \/ EnterImpl
    \/ VisitRewrite
    \/ VisitContinue
    \/ VisitCopy
    \/ EndBlock
    \/ LeaveImpl
    \/ Return
    \/ Reapply

----------------------------------------------------------------------------
(* The shaders the pass is applied to *)

\* gives every instruction its identity: function, block, place in the block
WithIds(functions) ==
    [ g \in 1..Len(functions) |->
        [functions[g] EXCEPT !.blocks =
            [ b \in 1..Len(@) |->
                [ i \in 1..Len(@[b]) |-> [@[b][i] EXCEPT !.id = <<g, b, i>>] ] ] ] ]

Loads(chains) == { LoadDeref(d) : d \in chains }
Stores(chains) == { StoreDeref(d) : d \in chains }
Copies(chains) == { CopyDeref(d, d) : d \in chains }

Pick(name, ops) == Chains(Var(name), ops)

AllChains == UNION { Chains(v, IndexOps) : v \in Variables }

\* one instruction: an access to any chain of any variable, a copy, or an
\* instruction without a chain
AnyInstr ==
    Loads(AllChains) \cup Stores(AllChains)
    \cup Copies(Pick("s", {}) \cup Pick("g", {Imm(0)})) \cup {Barrier, Fadd}

SingleInstrShaders == { <<Function(TRUE, << <<i>> >>)>> : i \in AnyInstr }

\* the instructions of a function body of several instructions
BodyInstrs ==
    Stores(Pick("a", {Imm(1)}) \cup Pick("one", {Imm(1)}))
    \cup Loads(Pick("a", {Imm(1), Ssa("i")}) \cup Pick("one", {Imm(1)})
              \cup Pick("t", {Imm(1)}) \cup Pick("g", {Imm(1)}))
    \cup Copies(Pick("g", {Imm(0)})) \cup {Fadd}

\* a load and a store on two chains of the same variable
SameVariableShaders ==
    UNION { { <<Function(TRUE, << <<LoadDeref(c), StoreDeref(d)>> >>)>> :
                c \in Pick(name, IndexOps), d \in Pick(name, IndexOps) } :
            name \in {"a", "t", "u"} }

\* a store to a constant element of an array and a load from it, in the same
\* block or in the next
RoundTripShaders ==
    UNION { { <<Function(TRUE, <<SubSeq(<<StoreDeref(d), LoadDeref(d)>>, 1, cut),
                                 SubSeq(<<StoreDeref(d), LoadDeref(d)>>, cut + 1, 2)>>)>> :
                cut \in 1..2 } :
            d \in UNION { Pick(name, { Imm(k) : k \in 0..MaxIdx }) :
                           name \in {"a", "one"} } }

SeqsUpTo(S, n) == UNION { [1..k -> S] : k \in 0..n }

\* a body of at most MaxInstrs instructions, cut into two blocks
TwoBlockShaders ==
    UNION { { <<Function(TRUE, <<SubSeq(body, 1, cut),
                                 SubSeq(body, cut + 1, Len(body))>>)>> :
                cut \in 0..Len(body) } :
            body \in SeqsUpTo(BodyInstrs, MaxInstrs) }

FunctionChoices ==
    { Function(FALSE, <<>>), Function(TRUE, << <<>> >>) }
    \cup { Function(TRUE, << <<i>> >>) :
             i \in Loads(Pick("a", {Imm(1)})) \cup Stores(Pick("g", {Imm(1)})) }

ManyFunctionShaders == [1..NumFuncs -> FunctionChoices]

Shaders ==
    SingleInstrShaders \cup SameVariableShaders \cup RoundTripShaders
    \cup TwoBlockShaders \cup ManyFunctionShaders

Init ==
    /\ input \in { WithIds(sh) : sh \in Shaders }
    /\ shader = input
    /\ pre = input
    /\ f = 1 /\ blk = 1 /\ pos = 1
    /\ regs_table = <<>>
    /\ state_progress = FALSE
    /\ progress = FALSE
    /\ result = FALSE
    /\ pc = "loop"
    /\ runs = 1
    /\ rets = [g \in 1..Len(input) |-> "pending"]
    /\ rewritten = {}
    /\ walk = <<>>
    /\ asserts_ok = TRUE

Spec == Init /\ [][Next]_vars

----------------------------------------------------------------------------
(* The notions the properties are stated in *)

InstrsOf(function) ==
    UNION { { function.blocks[b][i] : i \in 1..Len(function.blocks[b]) } :
            b \in 1..Len(function.blocks) }

Funcs == 1..Len(shader)

\* the moves the pass has put into function g
Movs(g) == { ins \in InstrsOf(shader[g]) : ins.op = "imov" }

\* the instruction of the input shader that a move took the place of
Orig(mov) == input[mov.id[1]].blocks[mov.id[2]][mov.id[3]]

RegOf(g, mov) == shader[g].registers[mov.reg]

ArrayLinks(d) == { k \in 1..Len(d) : d[k].deref_type = "array" }

\* root variable and struct-field indices, leaf first
CanonicalIdentity(d) ==
    << d[Len(d)].var,
       [ n \in 1..Len(SelectSeq(d, LAMBDA x : x.deref_type = "struct")) |->
           SelectSeq(d, LAMBDA x : x.deref_type = "struct")[n].strct_index ] >>

\* a load or store on a local chain
LocalAccess(ins) ==
    /\ ins.op \in {"load_deref", "store_deref"}
    /\ ins.deref[1].mode = "local"

\* function g has been lowered by the current call
Lowered(g) == pre[g].impl /\ (g < f \/ pc = "done")

HasCopy(function) == \E ins \in InstrsOf(function) : ins.op = "copy_deref"

----------------------------------------------------------------------------
\* C1: within one function, two rewritten accesses use the same register
\* exactly when their chains have the same root variable and the same
\* sequence of struct-field indices, whatever their array indices are.
C1_IdentityDecidesRegister ==
    \A g \in Funcs : \A m1, m2 \in Movs(g) :
        (m1.reg = m2.reg) <=>
            (CanonicalIdentity(Orig(m1).deref) = CanonicalIdentity(Orig(m2).deref))

\* two accesses of one variable, at a constant and at a dynamic index, have
\* been given the same register
C1_Witness ==
    \E g \in Funcs : \E m1, m2 \in Movs(g) :
        /\ m1.reg = m2.reg
        /\ Orig(m1).deref[1].deref_type = "array"
        /\ is_const(Orig(m1).deref[1].arr_index)
        /\ ~is_const(Orig(m2).deref[1].arr_index)

----------------------------------------------------------------------------
(* Values of index expressions *)

Envs == [SsaNames -> 0..MaxDyn]

RECURSIVE Eval(_, _)
Eval(e, env) ==
    CASE e[1] = "imm" -> e[2]
      [] e[1] = "ssa" -> env[e[2]]
      [] e[1] = "imul" -> Eval(e[2], env) * Eval(e[3], env)
      [] e[1] = "iadd" -> Eval(e[2], env) + Eval(e[3], env)

\* the element a register operand addresses
Addressed(mov, env) ==
    mov.base_offset + (IF mov.indirect = NULL THEN 0 ELSE Eval(mov.indirect, env))

\* the row-major element of chain d: the element of the parent, scaled by
\* the length of the array indexed, plus the index
RECURSIVE RowMajor(_, _)
RowMajor(d, env) ==
    IF d = <<>> THEN 0
    ELSE IF d[1].deref_type = "array"
         THEN RowMajor(Tail(d), env) * d[2].type[2] + Eval(d[1].arr_index, env)
         ELSE RowMajor(Tail(d), env)

\* the product of the lengths of the arrays indexed along chain d
RECURSIVE LengthProduct(_)
LengthProduct(d) ==
    IF d = <<>> THEN 1
    ELSE (IF d[1].type[1] = "array" THEN d[1].type[2] ELSE 1)
            * LengthProduct(Tail(d))

\* the instructions the builder emitted for the index of a move
BuiltFor(g, mov) ==
    { ins \in InstrsOf(shader[g]) : ins.id = mov.id /\ ins.op # "imov" }

----------------------------------------------------------------------------
\* C3: for every rewritten access whose register is an array, and whatever
\* the values of the dynamic indices, base_offset plus the value of the
\* dynamic index is the row-major element of the chain (leaf at stride 1).
C3_LinearizationLaw ==
    \A g \in Funcs : \A mov \in Movs(g) :
        RegOf(g, mov).num_array_elems > 0 =>
            \A env \in Envs : Addressed(mov, env) = RowMajor(Orig(mov).deref, env)

\* m, of dimensions [3][4], accessed at [i][2]: the constant 2 seeds the
\* dynamic index, to which i * 4 is added
C3_Witness ==
    \E g \in Funcs : \E mov \in Movs(g) :
        /\ Orig(mov).deref[Len(Orig(mov).deref)].var = Var("m").ptr
        /\ mov.base_offset = 0
        /\ mov.indirect = <<"iadd", Imm(2), <<"imul", Ssa("i"), Imm(4)>>>>

\* C4: a rewritten access whose register has array_size 0 has base_offset 0
\* and no dynamic index, and no index arithmetic was emitted for it.
C4_ScalarDegradation ==
    \A g \in Funcs : \A mov \in Movs(g) :
        RegOf(g, mov).num_array_elems = 0 =>
            /\ mov.base_offset = 0
            /\ mov.indirect = NULL
            /\ BuiltFor(g, mov) = {}

\* the single-element array accessed at a dynamic index
C4_Witness ==
    \E g \in Funcs : \E mov \in Movs(g) :
        /\ RegOf(g, mov).num_array_elems = 0
        /\ ArrayLinks(Orig(mov).deref) # {}
        /\ ~is_const(Orig(mov).deref[1].arr_index)

\* C8 as stated: array_size is 0 exactly when the chain has no array link,
\* and otherwise the product of the lengths of the arrays indexed.
C8_Original ==
    \A g \in Funcs : \A mov \in Movs(g) :
        /\ (RegOf(g, mov).num_array_elems = 0) <=> (ArrayLinks(Orig(mov).deref) = {})
        /\ ArrayLinks(Orig(mov).deref) # {} =>
              RegOf(g, mov).num_array_elems = LengthProduct(Orig(mov).deref)

\* C8, amended: array_size is the product of the lengths of the arrays
\* indexed along the whole chain when that product exceeds 1, and 0
\* otherwise (no array link, or only arrays of one element).
C8_ArraySize ==
    \A g \in Funcs : \A mov \in Movs(g) :
        RegOf(g, mov).num_array_elems =
            IF LengthProduct(Orig(mov).deref) > 1
            THEN LengthProduct(Orig(mov).deref) ELSE 0

\* a chain with an array above and an array below a struct field
C8_Witness ==
    \E g \in Funcs : \E mov \in Movs(g) :
        /\ Cardinality(ArrayLinks(Orig(mov).deref)) = 2
        /\ \E k \in 1..Len(Orig(mov).deref) : Orig(mov).deref[k].deref_type = "struct"
        /\ RegOf(g, mov).num_array_elems = 6

\* C10: after every link of the index walk, and in every operand returned,
\* base_offset is 0 once there is a dynamic index; the assert never fails.
C10_IndirectMeansZeroBase ==
    /\ asserts_ok
    /\ \A k \in 1..Len(walk) : walk[k].indirect # NULL => walk[k].base_offset = 0
    /\ \A g \in Funcs : \A mov \in Movs(g) :
          mov.indirect # NULL => mov.base_offset = 0

\* m accessed at [2][i]: the dynamic index i is seeded with base_offset 0,
\* and the constant 2 met after it is folded into the dynamic index
C10_Witness ==
    /\ Len(walk) = 2
    /\ walk[1].indirect = <<"iadd", Imm(0), <<"imul", Ssa("i"), Imm(1)>>>>
    /\ walk[2].indirect = <<"iadd", walk[1].indirect, <<"imul", Imm(2), Imm(4)>>>>
    /\ walk[2].base_offset = 0

----------------------------------------------------------------------------
\* the place of an instruction in its function
Before(p, q) == p[2] < q[2] \/ (p[2] = q[2] /\ p[3] < q[3])

\* chain d is an element of an array variable at a constant index
ConstElement(d) ==
    Len(d) = 2 /\ d[1].deref_type = "array" /\ is_const(d[1].arr_index)

\* a store to and a later load from the same constant element, both rewritten
RoundTrips(g) ==
    { pair \in Movs(g) \X Movs(g) :
        /\ Orig(pair[1]).op = "store_deref" /\ Orig(pair[2]).op = "load_deref"
        /\ Before(pair[1].id, pair[2].id)
        /\ Orig(pair[1]).deref = Orig(pair[2]).deref
        /\ ConstElement(Orig(pair[1]).deref) }

\* C5 as stated: both moves of a constant round trip use the same register,
\* with base_offset k and no dynamic index.
C5_Original ==
    \A g \in Funcs : \A pair \in RoundTrips(g) :
        /\ pair[1].reg = pair[2].reg
        /\ pair[1].indirect = NULL /\ pair[2].indirect = NULL
        /\ pair[1].base_offset = const_value(Orig(pair[1]).deref[1].arr_index)
        /\ pair[2].base_offset = const_value(Orig(pair[1]).deref[1].arr_index)

\* C5, amended: both moves use the same register, with no dynamic index and
\* the same base_offset, which is k when the array has more than one
\* element and 0 when it has one.
C5_ConstantRoundTrip ==
    \A g \in Funcs : \A pair \in RoundTrips(g) :
        LET d == Orig(pair[1]).deref
            offset == IF d[2].type[2] > 1 THEN const_value(d[1].arr_index) ELSE 0
        IN  /\ pair[1].reg = pair[2].reg
            /\ pair[1].operand = "dest" /\ pair[2].operand = "src"
            /\ pair[1].indirect = NULL /\ pair[2].indirect = NULL
            /\ pair[1].base_offset = offset
            /\ pair[2].base_offset = offset

\* a[1] stored in the first block and loaded in the second
C5_Witness ==
    \E g \in Funcs : \E pair \in RoundTrips(g) :
        /\ pair[1].id[2] < pair[2].id[2]
        /\ pair[1].base_offset = 1 /\ pair[2].base_offset = 1

----------------------------------------------------------------------------
\* C2: once a function without a copy has been lowered, no load or store on
\* a local chain is left in it; a second application leaves it as it is,
\* rewrites nothing in it and returns false for it.
C2_Idempotence ==
    \A g \in Funcs : ~HasCopy(input[g]) =>
        /\ Lowered(g) => \A ins \in InstrsOf(shader[g]) : ~LocalAccess(ins)
        /\ runs > 1 =>
              /\ shader[g] = pre[g]
              /\ \A id \in rewritten : id[1] # g
              /\ rets[g] # "true"
              /\ (pc = "done" /\ Len(shader) = 1) => result = FALSE

\* the second application has returned on a function the first one rewrote
C2_Witness ==
    /\ runs = 2 /\ pc = "done" /\ result = FALSE
    /\ shader[1] # input[1]
    /\ rets[1] = "false"
    /\ Cardinality(Movs(1)) = 2

----------------------------------------------------------------------------
\* C6: when the call returns, every function with a body has been lowered
\* and no other; a function's result is true exactly when a load or store
\* on a local chain was rewritten in it; the call returns the OR of them.
C6_ProgramResult ==
    pc = "done" =>
        /\ \A g \in Funcs :
              IF pre[g].impl
              THEN /\ rets[g] \in {"true", "false"}
                   /\ \A ins \in InstrsOf(shader[g]) : ~LocalAccess(ins)
                   /\ (rets[g] = "true") <=> (\E id \in rewritten : id[1] = g)
                   /\ (rets[g] = "true") <=>
                         (\E ins \in InstrsOf(pre[g]) : LocalAccess(ins))
              ELSE rets[g] = "skipped" /\ shader[g] = pre[g]
        /\ result = (\E g \in Funcs : rets[g] = "true")

\* the first function reported progress, the second has no body, and the
\* third was lowered and reported progress all the same
C6_Witness ==
    /\ pc = "done" /\ runs = 1 /\ result = TRUE
    /\ Len(shader) >= 3
    /\ rets[1] = "true" /\ rets[2] = "skipped" /\ rets[3] = "true"

----------------------------------------------------------------------------
\* an instruction of the input whose chain is not local, or that has none
NotLocal(ins) == ins.deref = NULL \/ ins.deref[1].mode # "local"

\* an instruction the pass has inserted
Inserted(ins) == ins.op \in {"imov", "imm", "imul", "iadd"}

IsCopy(ins) == ins.type = "intrinsic" /\ ins.op = "copy_deref"

\* in every block, the instructions that are not on local storage are those
\* of the input, unchanged and in the same order
Frame ==
    \A g \in Funcs : \A b \in 1..Len(input[g].blocks) :
        SelectSeq(shader[g].blocks[b], LAMBDA ins : ~Inserted(ins) /\ NotLocal(ins))
            = SelectSeq(input[g].blocks[b], NotLocal)

----------------------------------------------------------------------------
BlockOrders(n) ==
    { o \in [1..n -> 1..n] : \A x, y \in 1..n : o[x] = o[y] => x = y }

\* of every rewritten access: its register's attributes, its addressing,
\* and the accesses it shares the register with
Lowering(function) ==
    LET movs == { ins \in InstrsOf(function) : ins.op = "imov" }
    IN  { << mov.id, function.registers[mov.reg], mov.operand,
             mov.base_offset, mov.indirect,
             { o.id : o \in { x \in movs : x.reg = mov.reg } } >> : mov \in movs }

\* C9: whatever the order in which the blocks of a function are lowered, the
\* accesses are shared among registers in the same way, the registers have
\* the same attributes and every rewritten access the same addressing.
C9_OrderIndependence ==
    \A g \in Funcs : (Lowered(g) /\ runs = 1) =>
        \A order \in BlockOrders(Len(input[g].blocks)) :
            Lowering(lower_impl_in_order(input[g], order)) = Lowering(shader[g])

\* two blocks, each with an access of its own variable: taken in the other
\* order the registers are numbered the other way round
C9_Witness ==
    /\ pc = "done" /\ runs = 1
    /\ Len(input[1].blocks) = 2
    /\ Len(shader[1].registers) = 2
    /\ lower_impl_in_order(input[1], <<2, 1>>).registers # shader[1].registers

====
